---- MODULE Spec2Model ----
(***************************************************************************)
(* A model of micro-ecs (src/src/ecs.ts): the World's slot storage with    *)
(* its free list, World.add, World.allEntities and World.run with the      *)
(* private helpers removeAt and adjustAt, and the Query builder.           *)
(*                                                                         *)
(* Slot indices are the 0-based indices of the source; slot s is element   *)
(* s + 1 of the TLA+ sequence _entities.  The stage callbacks of a query   *)
(* (filter, foreach, map) are caller code: each invocation's result is a   *)
(* nondeterministic choice, and the record `calls` keeps which stages the  *)
(* last loop iteration of run invoked, with what, and what they returned.  *)
(* Objects are values in the model; where identity matters it is kept      *)
(* beside the value: `result` holds references to the objects an earlier   *)
(* allEntities() returned, `queries` the Query objects a caller has built. *)
(* Two slots never hold the same object.                                   *)
(*                                                                         *)
(* Spec is the World used as its tests use it.  SpecTouch lets a foreach   *)
(* stage write on the record it receives, SpecReentrant lets a stage call  *)
(* add on the World it runs on, SpecSnapshot lets the caller keep a result *)
(* of allEntities() and write on its records, SpecReuse is a World of      *)
(* three slots whose entities a map stage removes one by one, SpecQuery is *)
(* the Query builder.                                                      *)
(***************************************************************************)
EXTENDS Integers, Sequences, FiniteSets

\* ------------------------------------------------------------- bounds
\* The number of storage slots add may grow _entities to.
MaxSlots == 2
\* The number of indices the free list may hold.
MaxFree == 2
\* The number of entities passed to one add call.
MaxAdd == 2
\* The number of Query objects a caller builds.
MaxQueries == 3
\* The number of storage slots, and of free-list indices, of the World
\* whose slots are vacated and reused one by one (SpecReuse).
MaxReuseSlots == 3

\* ------------------------------------------------------------- values
\* The component names of the Model.
Keys == {"name", "age"}

\* The state of a key that is no own property of an object.
Absent == "absent"
\* The value undefined, held by an own property ({name: undefined}).
Undef == "undefined"
\* Component values: "0" is a falsy value (0, '', false), "a" a truthy one.
Vals == {"0", "a"}

FalsyVals == {"0"}

\* JavaScript's ToBoolean on a property read: a missing property reads as
\* undefined; undefined and the falsy values are false.
Truthy(v) == v \in Vals \ FalsyVals

\* e[key] === undefined: the property is missing or holds undefined.
IsUndefined(v) == v \in {Absent, Undef}

\* An object over the Model: each key is absent, undefined or has a value.
Objects == [Keys -> Vals \cup {Absent, Undef}]

\* Object.keys(obj): the own properties, those holding undefined included.
ObjectKeys(obj) == {k \in Keys : obj[k] # Absent}

\* A test of a length the object does not have: never true.
isEmptyObjectNever(obj) == FALSE

isEmptyObject(obj) == Cardinality(ObjectKeys(obj)) = 0

\* The object literal {}.
EmptyObject == [k \in Keys |-> Absent]

\* An element of _entities: an entity object, or undefined (a vacated slot).
Live(ent) == [live |-> TRUE, ent |-> ent]
Vacant == [live |-> FALSE, ent |-> EmptyObject]

\* ToBoolean of an element of _entities: an object is truthy, {} included;
\* undefined is not.
SlotTruthy(slot) == slot.live

\* ------------------------------------------------------------- queries
\* The descriptor a Query builds: the selected keys and which stages are set.
Queries == [keys : SUBSET Keys, filter : BOOLEAN, foreach : BOOLEAN, map : BOOLEAN]

NoQuery == [keys |-> {}, filter |-> FALSE, foreach |-> FALSE, map |-> FALSE]

\* The values a diff may give a key.
DiffVals == Vals \cup {Undef}

\* A diff in its own-key (insertion) order: a sequence of <<key, value>>
\* with no key twice, as `for (const key in diff)` walks it.
Diffs ==
    {<<>>}
    \cup {<<<<k, v>>>> : k \in Keys, v \in DiffVals}
    \cup {d \in {<<<<k1, v1>>, <<k2, v2>>>> :
                    k1 \in Keys, k2 \in Keys, v1 \in DiffVals, v2 \in DiffVals} :
            d[1][1] # d[2][1]}

\* What a map stage returns: a diff, or undefined.
NoDiff == [defined |-> FALSE, diff |-> <<>>]
MapReturns == {NoDiff} \cup {[defined |-> TRUE, diff |-> d] : d \in Diffs}

\* A write on an object: none, `delete obj.name` or `obj.age = 'a'`.
NoTouch == <<>>
Touches == {NoTouch, <<"name", Absent>>, <<"age", "a">>}

\* An object after the write `touch` on it.
Touched(obj, touch) ==
    IF touch = NoTouch THEN obj ELSE [obj EXCEPT ![touch[1]] = touch[2]]

\* The stage invocations of one loop iteration of run: the slot, the
\* record `picked` as run built it, the stages invoked, what the filter and
\* the map stage returned, what the foreach stage wrote on the record.
NoCalls ==
    [picked |-> FALSE, slot |-> 0, arg |-> EmptyObject,
     filter |-> FALSE, filterRet |-> FALSE,
     foreach |-> FALSE, touch |-> NoTouch, map |-> FALSE, mapRet |-> NoDiff]

HasStage(query) == query.filter \/ query.foreach \/ query.map

\* ------------------------------------------------------------- state
VARIABLES
    _entities,  \* World._entities: the slots
    _free,      \* World._free: the stack of reusable indices, top last
    pc,         \* "idle", or "run" inside World.run's loop
    q,          \* the descriptor of the running query
    i,          \* the loop index of World.run
    calls,      \* the stage invocations of the last loop iteration
    validAdds,  \* every record passed to add so far had a present key and
                \* no own property holding undefined
    fresh,      \* the slots filled by an add that a stage of the running
                \* query called
    result,     \* the array an earlier allEntities() returned and the caller
                \* kept: references to entity objects
    vacated,    \* the slots removeAt has vacated and add has not filled
                \* since, in the order they were vacated
    queries     \* the Query objects the caller has built, and the one the
                \* last builder call returned

world ==
    <<_entities, _free, pc, q, i, calls, validAdds, fresh, result, vacated>>

vars ==
    <<_entities, _free, pc, q, i, calls, validAdds, fresh, result, vacated,
      queries>>

\* No Query built yet.
NoQueries == [objs |-> <<>>, ret |-> 0]

\* new World()
Init ==
    /\ _entities = <<>>
    /\ _free = <<>>
    /\ pc = "idle"
    /\ q = NoQuery
    /\ i = 0
    /\ calls = NoCalls
    /\ validAdds = TRUE
    /\ fresh = {}
    /\ result = <<>>
    /\ vacated = <<>>
    /\ queries = NoQueries

\* ------------------------------------------------------------- references
\* A reference to an entity object, as an element of a returned array: the
\* object's present value and, as long as the World stores the object
\* (attached), the slot it is stored in.
Ref(s, ent) == [slot |-> s, attached |-> TRUE, ent |-> ent]

\* The references after the slots of `filled` were given other objects.
Detach(refs, filled) ==
    IF refs = <<>> THEN <<>>
    ELSE [p \in DOMAIN refs |->
            IF refs[p].attached /\ refs[p].slot \in filled
            THEN [refs[p] EXCEPT !.attached = FALSE]
            ELSE refs[p]]

\* The references after the object of slot s was changed in place to obj,
\* and let go of by the World unless the slot is still live.
SyncSlot(refs, s, obj, live) ==
    IF refs = <<>> THEN <<>>
    ELSE [p \in DOMAIN refs |->
            IF refs[p].attached /\ refs[p].slot = s
            THEN [refs[p] EXCEPT !.ent = obj, !.attached = live]
            ELSE refs[p]]

\* ------------------------------------------------------------- add
\* The records passed to add: no validation is made of their shape.
Entity(name, age) == [k \in Keys |-> IF k = "name" THEN name ELSE age]

AddInputs ==
    { Entity("a", Absent), Entity("a", "0"), Entity(Absent, "a"),
      Entity(Absent, Absent), Entity(Undef, "a") }

\* `if (i)` on the popped index: undefined (empty stack) and 0 are falsy.
IndexTruthy(free) == Len(free) > 0 /\ free[Len(free)] # 0

\* The slot add's loop body fills: the popped index, or a new last slot.
AddIndex(w) ==
    IF IndexTruthy(w.free) THEN w.free[Len(w.free)] ELSE Len(w.entities)

\* The entity put in front of the storage (unshift for push).
AddOneFront(w, ent) ==
    [entities |-> <<Live(ent)>> \o w.entities, free |-> w.free]

\* One iteration of add's loop on the world w = [entities, free].
AddOne(w, ent) ==
    LET popped == IF Len(w.free) > 0 THEN SubSeq(w.free, 1, Len(w.free) - 1)
                  ELSE w.free
    IN  IF IndexTruthy(w.free)
        THEN [entities |-> [w.entities EXCEPT ![w.free[Len(w.free)] + 1] = Live(ent)],
              free |-> popped]
        ELSE [entities |-> Append(w.entities, Live(ent)),
              free |-> popped]

RECURSIVE AddAll(_, _)
AddAll(w, ents) ==
    IF ents = <<>> THEN w
    ELSE AddAll(AddOne(w, Head(ents)), Tail(ents))

\* The slots add's loop fills.
RECURSIVE FilledBy(_, _)
FilledBy(w, ents) ==
    IF ents = <<>> THEN {}
    ELSE {AddIndex(w)} \cup FilledBy(AddOne(w, Head(ents)), Tail(ents))

\* A record with at least one key, none of them holding undefined.
WellFormed(ent) ==
    /\ \E k \in Keys : ent[k] \in Vals
    /\ \A k \in Keys : ent[k] # Undef

\* The vacated slots left, oldest first, after add has filled the slots
\* of `filled`.
Reused(slots, filled) == SelectSeq(slots, LAMBDA s : s \notin filled)

\* World.add(...entities), on a storage that holds up to maxSlots slots
AddWithin(ents, maxSlots) ==
    /\ pc = "idle"
    /\ \E w \in {AddAll([entities |-> _entities, free |-> _free], ents)} :
           /\ Len(w.entities) <= maxSlots
           /\ _entities' = w.entities
           /\ _free' = w.free
    /\ result' = Detach(result, FilledBy([entities |-> _entities, free |-> _free], ents))
    /\ vacated' = Reused(vacated, FilledBy([entities |-> _entities, free |-> _free], ents))
    /\ calls' = NoCalls
    /\ validAdds' = (validAdds /\ \A p \in 1..Len(ents) : WellFormed(ents[p]))
    /\ UNCHANGED <<pc, q, i, fresh, queries>>

\* World.add(...entities)
Add(ents) == AddWithin(ents, MaxSlots)

AddCall ==
    \E n \in 1..MaxAdd : \E ents \in [1..n -> AddInputs] : Add(ents)

\* ------------------------------------------------------------- allEntities
\* A copy of the slots as they are (this._entities.slice(0)).
allEntitiesSlice(slots) == [p \in DOMAIN slots |-> slots[p].ent]

\* this._entities.filter(Boolean)
RECURSIVE FilterBoolean(_)
FilterBoolean(slots) ==
    IF slots = <<>> THEN <<>>
    ELSE IF SlotTruthy(Head(slots))
         THEN <<Head(slots).ent>> \o FilterBoolean(Tail(slots))
         ELSE FilterBoolean(Tail(slots))

\* World.allEntities on the slots
allEntitiesOf(slots) == FilterBoolean(slots)

allEntities == allEntitiesOf(_entities)

\* The elements of this._entities.filter(Boolean) from slot s on, as
\* references: filter copies the array, not its elements.
RECURSIVE LiveRefs(_, _)
LiveRefs(slots, s) ==
    IF s >= Len(slots) THEN <<>>
    ELSE IF SlotTruthy(slots[s + 1])
         THEN <<Ref(s, slots[s + 1].ent)>> \o LiveRefs(slots, s + 1)
         ELSE LiveRefs(slots, s + 1)

\* The array World.allEntities returns, as references
allEntitiesRefs(slots) == LiveRefs(slots, 0)

\* The values of the objects an array of references holds.
Values(refs) ==
    IF refs = <<>> THEN <<>> ELSE [p \in DOMAIN refs |-> refs[p].ent]

\* const all = world.allEntities(), kept by the caller
AllEntitiesCall ==
    /\ pc = "idle"
    /\ result' = allEntitiesRefs(_entities)
    /\ UNCHANGED <<_entities, _free, pc, q, i, calls, validAdds, fresh, vacated,
                   queries>>

\* all[p][key] = value, or delete all[p][key]: a write of the caller on a
\* record of the array it kept.  The record is the object the World
\* stores as long as the World has not let go of it.
WriteRecord ==
    /\ pc = "idle"
    /\ \E p \in DOMAIN result : \E touch \in Touches \ {NoTouch} :
          /\ result[p].attached
          /\ result' = [result EXCEPT ![p].ent = Touched(result[p].ent, touch)]
          /\ _entities' =
                IF result[p].attached
                THEN [_entities EXCEPT ![result[p].slot + 1].ent =
                                          Touched(result[p].ent, touch)]
                ELSE _entities
    /\ UNCHANGED <<_free, pc, q, i, calls, validAdds, fresh, vacated, queries>>

\* ------------------------------------------------------------- run
\* The presence test by truthiness (`!e[key]`).
hasAllKeysTruthy(e, keys) == \A key \in keys : Truthy(e[key])

\* One selected key is enough (some for every).
hasAllKeysSome(e, keys) == \E key \in keys : ~IsUndefined(e[key])

\* hasAllKeys of World.run
hasAllKeys(e, keys) == \A key \in keys : ~IsUndefined(e[key])

\* The entity itself handed to the stages.
PickAll(e, keys) == e

\* The projection `picked`: the selected keys with the entity's values.
Pick(e, keys) == [k \in Keys |-> IF k \in keys THEN e[k] ELSE Absent]

\* removeAt without the push to the free list.
removeAtNoPush(w, index) ==
    [entities |-> [w.entities EXCEPT ![index + 1] = Vacant],
     free |-> w.free]

\* World.removeAt on the world w
removeAt(w, index) ==
    [entities |-> [w.entities EXCEPT ![index + 1] = Vacant],
     free |-> Append(w.free, index)]

\* adjustAt's loop body without the removal of an emptied entity.
AdjustKeyNoRemove(st, index, key, value) ==
    LET entity == IF Truthy(value)
                  THEN [st.entity EXCEPT ![key] = value]
                  ELSE [st.entity EXCEPT ![key] = Absent]
    IN  [entity |-> entity,
         w |-> [st.w EXCEPT !.entities[index + 1] = Live(entity)]]

\* One iteration of adjustAt's loop.  `entity` is the object the local
\* constant refers to; it is the slot's object as long as the slot has not
\* been set to undefined by removeAt, and a detached object afterwards.
AdjustKey(st, index, key, value) ==
    LET entity == IF Truthy(value)
                  THEN [st.entity EXCEPT ![key] = value]
                  ELSE [st.entity EXCEPT ![key] = Absent]
        stored == IF st.w.entities[index + 1].live
                  THEN [st.w EXCEPT !.entities[index + 1] = Live(entity)]
                  ELSE st.w
    IN  IF ~Truthy(value) /\ isEmptyObject(entity)
        THEN [entity |-> entity, w |-> removeAt(stored, index)]
        ELSE [entity |-> entity, w |-> stored]

RECURSIVE AdjustLoop(_, _, _)
AdjustLoop(st, index, diff) ==
    IF diff = <<>> THEN st
    ELSE AdjustLoop(AdjustKey(st, index, Head(diff)[1], Head(diff)[2]),
                    index, Tail(diff))

\* World.adjustAt on the world w
adjustAt(w, index, diff) ==
    AdjustLoop([entity |-> w.entities[index + 1].ent, w |-> w], index, diff).w

\* The filter's result ignored.
FilterRejectsNever(query, pass) == FALSE

\* `filter && !filter(picked)`: pass is what the filter returns.
FilterRejects(query, pass) == query.filter /\ ~pass

\* The record handed to the stages is the entity itself: a write on it is
\* a write on the entity.
EntityAfterWriteShared(ent, touch) == Touched(ent, touch)

\* The entity after a stage wrote on the record it was handed: `picked` is
\* a new object ({} filled key by key), so the entity is as it was.
EntityAfterWrite(ent, touch) == ent

\* The body of the loop of World.run at slot `index`: the world it leaves,
\* the stages it invoked and the value it leaves the slot's object with.
\* pass and ret are what the filter and the map stage return if they are
\* invoked, touch what the foreach stage writes on the record, added the
\* entities the invoked stages pass to add on this World.  The stages run
\* between the building of `picked` and removeAt or adjustAt, which read
\* the slot again.
Iteration(w, index, query, pass, ret, touch, added) ==
    LET slot == w.entities[index + 1]
        ent == slot.ent
        seen == [NoCalls EXCEPT !.picked = TRUE, !.slot = index,
                                !.arg = Pick(ent, query.keys)]
        passed == [seen EXCEPT !.filter = query.filter,
                               !.filterRet = query.filter /\ pass,
                               !.foreach = query.foreach,
                               !.touch = touch]
        mapped == [passed EXCEPT !.map = TRUE, !.mapRet = ret]
        after == EntityAfterWrite(ent, touch)
        written == IF query.foreach
                   THEN [w EXCEPT !.entities[index + 1] = Live(after)]
                   ELSE w
        wr == AddAll(w, added)
        wp == AddAll(written, added)
        adjusted == AdjustLoop([entity |-> wp.entities[index + 1].ent, w |-> wp],
                               index, ret.diff)
    IN  IF ~SlotTruthy(slot) THEN [w |-> w, calls |-> NoCalls, obj |-> ent]
        ELSE IF ~hasAllKeys(ent, query.keys)
             THEN [w |-> w, calls |-> NoCalls, obj |-> ent]
        ELSE IF FilterRejects(query, pass)
             THEN [w |-> wr, calls |-> [seen EXCEPT !.filter = TRUE],
                   obj |-> wr.entities[index + 1].ent]
        ELSE IF ~query.map
             THEN [w |-> wp, calls |-> passed, obj |-> wp.entities[index + 1].ent]
        ELSE IF ~ret.defined
             THEN [w |-> removeAt(wp, index), calls |-> mapped,
                   obj |-> wp.entities[index + 1].ent]
        ELSE [w |-> adjustAt(wp, index, ret.diff), calls |-> mapped,
              obj |-> adjusted.entity]

\* What the stages invoked in the iteration at slot `index` may do, as
\* tuples <<filter's result, map's result, foreach's write, entities
\* added>>, the writes drawn from `touches`, the added entities from
\* `adds` and the map's results from `rets`.  A stage that is not invoked
\* does nothing: one tuple stands for an iteration without it.
Returns(w, index, query, touches, adds, rets) ==
    IF \/ ~SlotTruthy(w.entities[index + 1])
       \/ ~hasAllKeys(w.entities[index + 1].ent, query.keys)
       \/ ~HasStage(query)
    THEN {<<TRUE, NoDiff, NoTouch, <<>>>>}
    ELSE (IF query.filter
          THEN {<<FALSE, NoDiff, NoTouch, added>> : added \in adds}
          ELSE {})
         \cup {<<TRUE, ret, touch, added>> :
                  ret \in (IF query.map THEN rets ELSE {NoDiff}),
                  touch \in (IF query.foreach THEN touches ELSE {NoTouch}),
                  added \in adds}

\* q.build() at the start of World.run, for a query of `built`
Begin(built) ==
    /\ pc = "idle"
    /\ \E query \in built : q' = query
    /\ pc' = "run"
    /\ i' = 0
    /\ calls' = NoCalls
    /\ fresh' = {}
    /\ UNCHANGED <<_entities, _free, validAdds, result, vacated, queries>>

\* World.run(q) called with any query
RunBegin == Begin(Queries)

\* World.run(q) called with a query that has a foreach stage
RunBeginForeach == Begin({query \in Queries : query.foreach})

\* World.run(q) called with a query whose only stage is a map stage
RunBeginMap ==
    Begin({query \in Queries : query.map /\ ~query.filter /\ ~query.foreach})

\* The loop index left where it is.
NextIndexStay(index) == index

\* ++i
NextIndex(index) == index + 1

\* The vacated slots, oldest first, after an iteration at slot `index`
\* whose stages filled the slots of `filled` by add: the slot joins them
\* if the iteration found it live and left it vacant.
VacatedAfter(slots, filled, before, after, index) ==
    IF before[index + 1].live /\ ~after[index + 1].live
    THEN Append(Reused(slots, filled \cup {index}), index)
    ELSE Reused(slots, filled)

\* One iteration of the loop of World.run, at slot i, with stages that
\* write on the record one of `touches`, add one of `adds` and return one
\* of `rets` from map, on a storage that holds up to maxSlots slots and
\* maxFree free indices.
StepWithin(touches, adds, rets, maxSlots, maxFree) ==
    /\ pc = "run"
    /\ i < Len(_entities)
    /\ \E w \in {[entities |-> _entities, free |-> _free]} :
         \E o \in Returns(w, i, q, touches, adds, rets) :
           \E r \in {Iteration(w, i, q, o[1], o[2], o[3], o[4])} :
             /\ Len(r.w.free) <= maxFree
             /\ Len(r.w.entities) <= maxSlots
             /\ _entities' = r.w.entities
             /\ _free' = r.w.free
             /\ calls' = r.calls
             /\ fresh' = fresh \cup FilledBy(w, o[4])
             /\ result' = SyncSlot(Detach(result, FilledBy(w, o[4])), i,
                                   r.obj, r.w.entities[i + 1].live)
             /\ vacated' = VacatedAfter(vacated, FilledBy(w, o[4]),
                                        w.entities, r.w.entities, i)
             /\ validAdds' = (validAdds /\ \A p \in DOMAIN o[4] : WellFormed(o[4][p]))
    /\ i' = NextIndex(i)
    /\ UNCHANGED <<pc, q, queries>>

\* One iteration of the loop of World.run, at slot i, with stages that
\* write on the record one of `touches`, add one of `adds` and return one
\* of `rets` from map.
Step(touches, adds, rets) ==
    StepWithin(touches, adds, rets, MaxSlots, MaxFree)

\* One iteration of the loop of World.run, at slot i.
RunStep == Step({NoTouch}, {<<>>}, MapReturns)

\* The same with a foreach stage that writes on the record it receives.
RunStepTouch == Step(Touches, {<<>>}, MapReturns)

\* The entities a stage passes to add.
ReentrantAdds == {<<>>, <<Entity("a", Absent)>>, <<Entity(Absent, "a")>>}

\* What the map stage of such a query returns: undefined, {} or
\* {name: undefined}.
ReentrantReturns ==
    {NoDiff, [defined |-> TRUE, diff |-> <<>>],
     [defined |-> TRUE, diff |-> <<<<"name", Undef>>>>]}

\* The same with stages that call add on the World they run on.
RunStepReentrant == Step({NoTouch}, ReentrantAdds, ReentrantReturns)

\* The loop of World.run ends when i reaches _entities.length.
RunEnd ==
    /\ pc = "run"
    /\ i >= Len(_entities)
    /\ pc' = "idle"
    /\ q' = NoQuery
    /\ i' = 0
    /\ calls' = NoCalls
    /\ fresh' = {}
    /\ UNCHANGED <<_entities, _free, validAdds, result, vacated, queries>>

\* ------------------------------------------------------------- Query
\* The functions a caller passes as stages.
StageFns == {"f", "g"}

\* A stage key that is missing from a descriptor.
NoStage == "none"

\* The descriptor { keys } of QueryBuilder.select
Descriptor(keys) ==
    [keys |-> keys, filter |-> NoStage, foreach |-> NoStage, map |-> NoStage]

\* new Query(descriptor): the Query objects with a new one, which is the
\* one returned.
NewQuery(qs, descriptor) ==
    [objs |-> Append(qs.objs, descriptor), ret |-> Len(qs.objs) + 1]

\* QueryBuilder.select(...keys)
QuerySelect(qs, keys) == NewQuery(qs, Descriptor(keys))

\* this._query.filter = filter; return this
QueryFilterInPlace(qs, r, fn) ==
    [objs |-> [qs.objs EXCEPT ![r].filter = fn], ret |-> r]

\* Query.filter on the Query object r
QueryFilter(qs, r, fn) == NewQuery(qs, [qs.objs[r] EXCEPT !.filter = fn])

\* Query.forEach on the Query object r
QueryForEach(qs, r, fn) == NewQuery(qs, [qs.objs[r] EXCEPT !.foreach = fn])

\* Query.map on the Query object r
QueryMap(qs, r, fn) == NewQuery(qs, [qs.objs[r] EXCEPT !.map = fn])

\* A builder call that leaves the Query objects qs.
Built(qs) ==
    /\ Len(qs.objs) <= MaxQueries
    /\ queries' = qs
    /\ UNCHANGED world

SelectCall == \E keys \in SUBSET Keys : Built(QuerySelect(queries, keys))

FilterCall ==
    \E r \in DOMAIN queries.objs : \E fn \in StageFns :
        Built(QueryFilter(queries, r, fn))

ForEachCall ==
    \E r \in DOMAIN queries.objs : \E fn \in StageFns :
        Built(QueryForEach(queries, r, fn))

MapCall ==
    \E r \in DOMAIN queries.objs : \E fn \in StageFns :
        Built(QueryMap(queries, r, fn))

NextQuery ==
    \/ SelectCall
    \/ FilterCall
    \/ ForEachCall
    \/ MapCall

SpecQuery == Init /\ [][NextQuery]_vars

\* ------------------------------------------------------------- World
Next ==
    \/ AddCall
    \/ RunBegin
    \/ RunStep
    \/ RunEnd

Spec == Init /\ [][Next]_vars

NextTouch ==
    \/ AddCall
    \/ RunBeginForeach
    \/ RunStepTouch
    \/ RunEnd

SpecTouch == Init /\ [][NextTouch]_vars

NextReentrant ==
    \/ AddCall
    \/ RunBegin
    \/ RunStepReentrant
    \/ RunEnd

SpecReentrant == Init /\ [][NextReentrant]_vars

\* run is a synchronous loop: once called it goes on, iteration after
\* iteration, as long as the stages return, and returns at the loop's
\* exit.
SpecReentrantLive ==
    SpecReentrant /\ WF_vars(RunStepReentrant) /\ WF_vars(RunEnd)

NextSnapshot ==
    \/ AddCall
    \/ RunBeginMap
    \/ RunStep
    \/ RunEnd
    \/ AllEntitiesCall
    \/ WriteRecord

SpecSnapshot == Init /\ [][NextSnapshot]_vars

\* The records added to the World whose slots are reused.
ReuseInputs == {Entity("a", Absent), Entity(Absent, "a")}

\* World.add(...entities) on a storage of up to MaxReuseSlots slots
AddCallReuse ==
    \E n \in 1..MaxAdd : \E ents \in [1..n -> ReuseInputs] :
        AddWithin(ents, MaxReuseSlots)

\* World.run(query().select().map(fn)): every entity is handed to fn
RunBeginVacate ==
    Begin({[keys |-> {}, filter |-> FALSE, foreach |-> FALSE, map |-> TRUE]})

\* What fn returns: undefined, which vacates the slot, or {}, which leaves
\* the entity as it is.
VacateReturns == {NoDiff, [defined |-> TRUE, diff |-> <<>>]}

\* One iteration of the loop of such a run, at slot i.
RunStepVacate ==
    StepWithin({NoTouch}, {<<>>}, VacateReturns, MaxReuseSlots, MaxReuseSlots)

NextReuse ==
    \/ AddCallReuse
    \/ RunBeginVacate
    \/ RunStepVacate
    \/ RunEnd

SpecReuse == Init /\ [][NextReuse]_vars

\* ============================================================= claims
Slots == 0 .. Len(_entities) - 1

SlotAt(s) == _entities[s + 1]

VacantSlots == {s \in Slots : ~SlotAt(s).live}

LiveSlots == {s \in Slots : SlotAt(s).live}

\* A step of run's loop: the iteration at slot i (unprimed).
IsRunStep == pc = "run" /\ pc' = "run" /\ i' = i + 1

\* A step of run's loop in which the map stage returned a diff.
IsDiffStep == IsRunStep /\ calls'.map /\ calls'.mapRet.defined

Invoked(c) == c.filter \/ c.foreach \/ c.map

\* An entity after every key of a diff has been applied to it by
\* definedness: a defined value is set, an undefined one removes the key.
Applied(pre, d) ==
    [k \in Keys |->
        IF \E p \in DOMAIN d : d[p][1] = k
        THEN LET v == d[CHOOSE p \in DOMAIN d : d[p][1] = k][2]
             IN  IF v = Undef THEN Absent ELSE v
        ELSE pre[k]]

\* C1: the free list holds no index twice, and no index of a live slot.
\* Violated by the code: adjustAt calls removeAt once for every removing
\* key it meets after the entity has become empty.
C1_FreeListClean ==
    /\ \A p \in DOMAIN _free : \A r \in DOMAIN _free :
           p # r => _free[p] # _free[r]
    /\ \A p \in DOMAIN _free : ~SlotAt(_free[p]).live

\* C2: when some slot is vacant, add of one entity puts it into a vacant
\* slot and does not grow the storage.  Violated by the code: a popped
\* index 0 is falsy, and the entity is appended.
C2_AddReusesVacated ==
    [][ (VacantSlots # {} /\ \E e \in AddInputs : Add(<<e>>))
        => /\ Len(_entities') = Len(_entities)
           /\ \E s \in VacantSlots : _entities'[s + 1].live ]_vars

\* C3: a diff sets every key whose value is defined (the falsy values
\* included) and removes only the keys whose value is undefined.  Violated
\* by the code: adjustAt tests the diff's value by truthiness.
C3_DiffSetsDefined ==
    [][ IsDiffStep =>
        LET d == calls'.mapRet.diff
            pre == _entities[i + 1].ent
            post == _entities'[i + 1]
        IN  /\ \A p \in DOMAIN d :
                 d[p][2] # Undef => post.live /\ post.ent[d[p][1]] = d[p][2]
            /\ \A k \in Keys :
                 (pre[k] # Absent /\ (~post.live \/ post.ent[k] = Absent))
                   => \E p \in DOMAIN d : d[p] = <<k, Undef>> ]_vars

\* C4: a diff vacates the slot, pushing its index, if and only if the
\* entity has no present key once ALL keys of the diff are applied;
\* otherwise the entity stays live with the result.  Stated for the diffs
\* whose defined values are truthy, where C3's divergence plays no part.
\* Violated by the code: adjustAt tests emptiness after each removed key.
C4_VacatedIffEmptyAfterAll ==
    [][ (IsDiffStep /\ \A p \in DOMAIN calls'.mapRet.diff :
                          calls'.mapRet.diff[p][2] \notin FalsyVals) =>
        LET d == calls'.mapRet.diff
            final == Applied(_entities[i + 1].ent, d)
            post == _entities'[i + 1]
        IN  IF \A k \in Keys : final[k] \notin Vals
            THEN ~post.live /\ _free' = Append(_free, i)
            ELSE post = Live(final) /\ _free' = _free ]_vars

\* C5: an iteration of run invokes the query's stages on a slot if and
\* only if the slot is live and every selected key has a value other
\* than undefined on its entity, a falsy value included.
C5_SelectionByDefinedness ==
    [][ (IsRunStep /\ HasStage(q)) =>
        (Invoked(calls') <=>
            /\ _entities[i + 1].live
            /\ \A k \in q.keys : _entities[i + 1].ent[k] \in Vals) ]_vars

\* C5's case: a stage was invoked on an entity whose selected key holds a
\* falsy value.
C5_Witness ==
    /\ pc = "run"
    /\ Invoked(calls)
    /\ \E k \in q.keys : calls.arg[k] \in FalsyVals

\* C6: when the filter returns false, neither foreach nor map is invoked
\* and the world is left as it was; an iteration changes no slot but its
\* own, so the entity keeps its keys and values through the whole run.
C6_FilterExclusive ==
    [][ IsRunStep =>
        /\ Len(_entities') = Len(_entities)
        /\ \A s \in Slots \ {i} : _entities'[s + 1] = _entities[s + 1]
        /\ (calls'.filter /\ ~calls'.filterRet) =>
              /\ ~calls'.foreach
              /\ ~calls'.map
              /\ _entities' = _entities
              /\ _free' = _free ]_vars

\* C6's case: the filter returned false for a live entity in a query that
\* has a foreach and a map stage.
C6_Witness ==
    /\ pc = "run"
    /\ i > 0
    /\ calls.filter /\ ~calls.filterRet
    /\ q.foreach /\ q.map
    /\ _entities[i].live

\* C7: a diff {k: undefined} removes key k and leaves the other keys and
\* values; an entity with no other own key is deleted: its slot is vacant
\* and allEntities() has one entity less.
C7_RemoveOneKey ==
    [][ (IsDiffStep /\ Len(calls'.mapRet.diff) = 1
                    /\ calls'.mapRet.diff[1][2] = Undef) =>
        LET k == calls'.mapRet.diff[1][1]
            pre == _entities[i + 1].ent
            post == _entities'[i + 1]
        IN  IF \A kk \in Keys \ {k} : pre[kk] = Absent
            THEN /\ ~post.live
                 /\ Len(allEntitiesOf(_entities')) = Len(allEntitiesOf(_entities)) - 1
            ELSE /\ post.live
                 /\ post.ent[k] = Absent
                 /\ \A kk \in Keys \ {k} : post.ent[kk] = pre[kk] ]_vars

\* C7's case: the diff {k: undefined} removed the selected key k, the only
\* key of the entity, and the slot is vacant.
C7_Witness ==
    /\ pc = "run"
    /\ i > 0
    /\ calls.map /\ calls.mapRet.defined
    /\ Len(calls.mapRet.diff) = 1
    /\ calls.mapRet.diff[1][2] = Undef
    /\ calls.mapRet.diff[1][1] \in q.keys
    /\ ~_entities[i].live

\* C8: a map stage returning undefined vacates the slot, pushes its index
\* and takes the entity out of allEntities(); the rest of the run neither
\* revives a vacant slot nor takes an index off the free list.
C8_UndefinedDeletes ==
    [][ IsRunStep =>
        /\ \A s \in Slots : ~_entities[s + 1].live => ~_entities'[s + 1].live
        /\ Len(_free') >= Len(_free)
        /\ SubSeq(_free', 1, Len(_free)) = _free
        /\ (calls'.map /\ ~calls'.mapRet.defined) =>
              /\ ~_entities'[i + 1].live
              /\ _free' = Append(_free, i)
              /\ allEntitiesOf(_entities') =
                    allEntitiesOf(SubSeq(_entities, 1, i))
                    \o allEntitiesOf(SubSeq(_entities, i + 2, Len(_entities))) ]_vars

\* C8's case: the map stage returned undefined for an entity that held
\* both keys.
C8_Witness ==
    /\ pc = "run"
    /\ i > 0
    /\ calls.map /\ ~calls.mapRet.defined
    /\ \A k \in Keys : calls.arg[k] \in Vals
    /\ ~_entities[i].live
    /\ i - 1 \in {_free[p] : p \in DOMAIN _free}

\* C9 as stated: every live slot holds an entity with a present key.
\* Violated: add stores the record it is given, {} included.
C9_LiveHasPresentKey ==
    \A s \in Slots : SlotAt(s).live => \E k \in Keys : SlotAt(s).ent[k] \in Vals

\* C9 amended: as long as every record passed to add had a present key and
\* no key holding undefined, every live slot holds an entity with a
\* present key.
C9_LiveHasPresentKeyIfValidAdds ==
    validAdds =>
        \A s \in Slots : SlotAt(s).live => \E k \in Keys : SlotAt(s).ent[k] \in Vals

\* C9's case: after valid adds only, a diff has emptied an entity, whose
\* slot is vacant, beside a live entity.
C9_Witness ==
    /\ validAdds
    /\ pc = "run"
    /\ i > 0
    /\ calls.map /\ calls.mapRet.defined
    /\ ~_entities[i].live
    /\ LiveSlots # {}

\* C10: allEntities() is the entities of the live slots, one per live
\* slot, in ascending slot order.
C10_AllEntitiesAreLiveSlots ==
    /\ Len(allEntities) = Cardinality(LiveSlots)
    /\ \A s \in LiveSlots :
          allEntities[Cardinality({t \in LiveSlots : t <= s})] = SlotAt(s).ent

\* C10's case: a vacant slot precedes a live one.
C10_Witness ==
    /\ Len(_entities) = 2
    /\ ~_entities[1].live
    /\ _entities[2].live

C12_NoMapRunChangesNothing ==
    [][ ((pc = "run" /\ ~q.map) \/ (pc' = "run" /\ ~q'.map))
          => /\ _entities' = _entities
             /\ _free' = _free
             /\ allEntitiesOf(_entities') = allEntitiesOf(_entities) ]_vars

\* C12's case: beside a vacant slot, the foreach stage of a query with no
\* map stage has deleted a key on the record, and the entity still has it.
C12_Witness ==
    /\ pc = "run"
    /\ i > 0
    /\ ~q.map
    /\ calls.foreach
    /\ calls.touch = <<"name", Absent>>
    /\ calls.arg["name"] \in Vals
    /\ _entities[i].live
    /\ _entities[i].ent["name"] \in Vals
    /\ VacantSlots # {}

\* C13: a step of a run leaves the records of the array an earlier
\* allEntities() returned as they were, and a write of the caller on one
\* of its records leaves the slots of the World as they were.  Violated by
\* the code: filter(Boolean) returns the stored objects themselves, which
\* adjustAt changes in place.
C13_ResultIsSnapshot ==
    [][ /\ (pc = "run" /\ pc' = "run") => Values(result') = Values(result)
        /\ WriteRecord => _entities' = _entities ]_vars

\* C14: a call of select, filter, forEach or map makes one new Query and
\* returns it; the descriptor of every Query that existed, the receiver
\* included, is as it was, and the new descriptor is the receiver's with
\* the one stage set.
C14_BuilderLeavesReceiver ==
    [][ queries' # queries =>
          /\ Len(queries'.objs) = Len(queries.objs) + 1
          /\ queries'.ret = Len(queries'.objs)
          /\ \A r \in DOMAIN queries.objs : queries'.objs[r] = queries.objs[r]
          /\ LET new == queries'.objs[queries'.ret]
             IN  \/ new \in {Descriptor(keys) : keys \in SUBSET Keys}
                 \/ \E r \in DOMAIN queries.objs : \E fn \in StageFns :
                       new \in {[queries.objs[r] EXCEPT !.filter = fn],
                                [queries.objs[r] EXCEPT !.foreach = fn],
                                [queries.objs[r] EXCEPT !.map = fn]} ]_vars

\* C14's case: two queries derived from one base by different calls, the
\* map first, beside the base as select built it.
C14_Witness ==
    /\ Len(queries.objs) = 3
    /\ queries.objs[1] = Descriptor({"name"})
    /\ queries.objs[2] = [Descriptor({"name"}) EXCEPT !.map = "g"]
    /\ queries.objs[3] = [Descriptor({"name"}) EXCEPT !.filter = "f"]

\* C15: the record handed to the stages of an iteration has every
\* selected key with the value the entity has for it, and no other key.
C15_ProjectionExact ==
    [][ (pc = "run" /\ pc' = "run" /\ Invoked(calls')) =>
          /\ calls'.picked
          /\ \A k \in q.keys :
                /\ calls'.arg[k] = _entities[i + 1].ent[k]
                /\ calls'.arg[k] \in Vals
          /\ \A k \in Keys \ q.keys : calls'.arg[k] = Absent ]_vars

\* C15's case: a stage received the record of an entity that has a key
\* outside the selection.
C15_Witness ==
    /\ pc = "run"
    /\ i > 0
    /\ Invoked(calls)
    /\ ~q.map
    /\ q.keys = {"name"}
    /\ calls.arg["name"] \in Vals
    /\ calls.arg["age"] = Absent
    /\ _entities[i].live
    /\ _entities[i].ent["age"] \in Vals

\* C16: an iteration of run changes no slot but its own, and not its own
\* when the entity lacks a selected key or the filter returned false: the
\* entity keeps its keys and values and stays live in its slot.
C16_UnmatchedUntouched ==
    [][ (pc = "run" /\ pc' = "run") =>
          /\ \A s \in Slots \ {i} : _entities'[s + 1] = _entities[s + 1]
          /\ (/\ _entities[i + 1].live
              /\ \E k \in q.keys : _entities[i + 1].ent[k] \notin Vals)
                => /\ _entities'[i + 1] = _entities[i + 1]
                   /\ ~Invoked(calls')
          /\ (calls'.filter /\ ~calls'.filterRet)
                => _entities'[i + 1] = _entities[i + 1] ]_vars

\* C16's case: a query with a map stage has passed over a live entity
\* that has one of the two selected keys and lacks the other.
C16_Witness ==
    /\ pc = "run"
    /\ i > 0
    /\ q.map
    /\ q.keys = Keys
    /\ ~Invoked(calls)
    /\ _entities[i].live
    /\ \E k \in Keys : _entities[i].ent[k] \in Vals
    /\ \E k \in Keys : _entities[i].ent[k] \notin Vals

C19_AddKeepsLiveEntities ==
    [][ (pc = "idle" /\ pc' = "idle") =>
          \A n \in 1..MaxAdd : \A ents \in [1..n -> AddInputs] :
            Add(ents) =>
              /\ Len(allEntitiesOf(_entities')) = Len(allEntitiesOf(_entities)) + n
              /\ \A s \in LiveSlots : _entities'[s + 1] = _entities[s + 1] ]_vars

\* C20: the index of every vacant slot is in the free list.  Violated by
\* the code through C2's divergence: add pops index 0 off the free list
\* and appends, so slot 0 stays vacant with its index gone.
C20_VacantSlotsAreFree ==
    \A s \in VacantSlots : \E p \in DOMAIN _free : _free[p] = s

\* The storage after add has put the entities of `ents`, one after the
\* other, each into the last slot of `order` (the vacated slots, oldest
\* first) that is left, and at the end of the storage once none is left.
RECURSIVE LastVacatedFirst(_, _, _)
LastVacatedFirst(slots, order, ents) ==
    IF ents = <<>> THEN slots
    ELSE IF order # <<>>
         THEN LastVacatedFirst(
                  [slots EXCEPT ![order[Len(order)] + 1] = Live(Head(ents))],
                  SubSeq(order, 1, Len(order) - 1), Tail(ents))
         ELSE LastVacatedFirst(Append(slots, Live(Head(ents))), order,
                               Tail(ents))

\* C21: when several slots are vacant, the entities of an add fill them in
\* last-vacated-first order: each lands in the most recently vacated slot
\* that has not been reused yet, and the storage is appended to only once
\* no vacated slot is left.  Violated by the code through the divergence
\* of C2: when slot 0 is among the vacated slots its popped index is
\* falsy, and the entity is appended while slot 0 stays vacant.
C21_LastVacatedFirstReuse ==
    [][ (pc = "idle" /\ pc' = "idle" /\ Cardinality(VacantSlots) >= 2)
        => \A n \in 1..MaxAdd : \A ents \in [1..n -> ReuseInputs] :
              AddWithin(ents, MaxReuseSlots)
              => _entities' = LastVacatedFirst(_entities, vacated, ents) ]_vars

====
